---- MODULE Spec2Model ----
(***************************************************************************)
(* A model of the dataset fetch engine of op2ob (src/datasets.py): the     *)
(* listing client (list_datasets), the listing cache (get_cache_path,      *)
(* load_cache, save_cache) and the two transfer backends                   *)
(* (fetch_file_aria2, fetch_file_fallback).                                *)
(*                                                                         *)
(* Strings are sequences of symbols.  A symbol is a separator character    *)
(* ("/", "_", a double quote, "-") or a word that holds no separator, so   *)
(* that startswith, endswith, split, join, replace and strip are computed  *)
(* symbol by symbol as Python computes them character by character.        *)
(***************************************************************************)
EXTENDS Integers, Sequences, FiniteSets, TLC

VARIABLES
    now,          \* time.time(), in whole seconds
    ticks,        \* how often the clock has advanced (bounded by MaxTicks)
    cacheDirs,    \* the tasks t whose directory .cache/<t> exists
    cacheFiles,   \* cache path -> content of the file at that path
    fsWritable,   \* whether the working directory accepts new files and directories
    stored,       \* history: cache path -> the {timestamp, datasets} save_cache wrote there
    lastPut,      \* history: the latest save_cache call (key, payload, time, written)
    lastCache,    \* outcome of the latest cache operation (SpecCache)
    bucket,       \* the objects of the remote bucket, in key order
    lastList,     \* outcome of the latest listing operation (Spec)
    localFile,    \* the file at local_path: absent, or its bytes
    aria2Installed, \* whether shutil.which("aria2c") finds the tool
    lastFetch,    \* outcome of the latest fetchFile call (SpecFetch)
    disk,         \* local path -> bytes of the file at that path, under datasets/
    diskDirs,     \* the dataset names n whose directory datasets/<n> exists
    job,          \* the fetch_entire_dataset call in progress, or the latest one
    pool,         \* its workers, one per file of the listing, in submission order
    printLock,    \* print_lock: 0 when free, else the index of the worker holding it
    writing,      \* the workers that are in the middle of writing to stderr
    taskRun,      \* the fetch_task call in progress, or the latest one
    lastSingle    \* outcome of the latest fetch_single_file call (SpecSingle)

cacheVars == <<now, ticks, cacheDirs, cacheFiles, fsWritable, stored, lastPut, lastCache>>
listVars  == <<bucket, lastList>>
fetchVars == <<localFile, aria2Installed, lastFetch>>
dlVars == <<disk, diskDirs, job, pool, printLock, writing, taskRun, lastSingle>>
vars == <<cacheVars, listVars, fetchVars, dlVars>>

----------------------------------------------------------------------------
(* Bounds of the model and constants of the program.                       *)

MaxTicks == 2          \* clock advances per behaviour
StartTime == 100000    \* time.time() at the start of a behaviour
CacheTTL == 3600       \* load_cache: "less than 1 hour old"

----------------------------------------------------------------------------
(* Python values.                                                          *)

None == [some |-> FALSE, v |-> <<>>]
Some(x) == [some |-> TRUE, v |-> x]

\* truthiness of an optional list: None and [] are falsy
Truthy(opt) == opt.some /\ opt.v # <<>>

startswith(s, p) == Len(p) <= Len(s) /\ SubSeq(s, 1, Len(p)) = p

endswith(s, c) == Len(s) > 0 /\ s[Len(s)] = c

RECURSIVE split(_, _)
split(s, sep) ==
    LET idx == {i \in 1..Len(s) : s[i] = sep}
    IN  IF idx = {} THEN <<s>>
        ELSE LET i == CHOOSE k \in idx : \A j \in idx : k <= j
             IN  <<SubSeq(s, 1, i - 1)>> \o split(SubSeq(s, i + 1, Len(s)), sep)

RECURSIVE join(_, _)
join(sep, parts) ==
    IF parts = <<>> THEN <<>>
    ELSE IF Len(parts) = 1 THEN parts[1]
    ELSE parts[1] \o <<sep>> \o join(sep, Tail(parts))

replace(s, old, new) == [i \in 1..Len(s) |-> IF s[i] = old THEN new ELSE s[i]]

RECURSIVE lstrip(_, _)
lstrip(s, c) == IF Len(s) > 0 /\ s[1] = c THEN lstrip(Tail(s), c) ELSE s

RECURSIVE rstrip(_, _)
rstrip(s, c) ==
    IF Len(s) > 0 /\ s[Len(s)] = c THEN rstrip(SubSeq(s, 1, Len(s) - 1), c) ELSE s

strip(s, c) == rstrip(lstrip(s, c), c)

\* humanize.naturalsize for sizes below 1000 bytes
naturalsize(n) ==
    IF n = 1 THEN <<"1", " ", "Byte">> ELSE <<ToString(n), " ", "Bytes">>

----------------------------------------------------------------------------
(* JSON documents, as json.dump writes and json.load reads them.  A        *)
(* document is a tree of tagged nodes; a cache file holds a document or    *)
(* text that json.load cannot parse.                                       *)

JNum(n) == [t |-> "num", v |-> n]
JStr(s) == [t |-> "str", v |-> s]
JArr(a) == [t |-> "arr", v |-> a]
JObj(o) == [t |-> "obj", v |-> o]

IntFields == {"timestamp", "size", "file_count"}
ListFields == {"datasets"}

\* json.dump of a dict whose values are int, str or a list of such dicts
RECURSIVE json_dump_dict(_)
json_dump_dict(d) ==
    JObj([k \in DOMAIN d |->
            IF k \in IntFields THEN JNum(d[k])
            ELSE IF k \in ListFields
                 THEN JArr([i \in 1..Len(d[k]) |-> json_dump_dict(d[k][i])])
                 ELSE JStr(d[k])])

\* the Python value json.load builds from a document
RECURSIVE json_value(_)
json_value(j) ==
    IF j.t = "arr" THEN [i \in 1..Len(j.v) |-> json_value(j.v[i])]
    ELSE IF j.t = "obj" THEN [k \in DOMAIN j.v |-> json_value(j.v[k])]
    ELSE j.v

Garbage == [kind |-> "garbage", doc |-> JArr(<<>>)]
JsonFile(doc) == [kind |-> "json", doc |-> doc]

\* json.load(f): raises on text that is no JSON
json_load(file) ==
    IF file.kind = "json" THEN [raised |-> FALSE, doc |-> file.doc]
    ELSE [raised |-> TRUE, doc |-> file.doc]

----------------------------------------------------------------------------
(* The listing cache.                                                      *)

Denoising == <<"denoising">>
CccSourceTarget ==
    <<"cell", "_", "cell", "_", "communication", "_", "source", "_", "target">>
CccS3Path == <<"cell", "_", "cell", "_", "communication">>

\* dataset_name=None, and a dataset name
NoDataset == None
Dataset(name) == Some(name)

\* cache_dir.mkdir(parents=True, exist_ok=True): fails when the directory is
\* absent and cannot be created
mkdir_cache_dir(task, dirs, writable) ==
    IF task \in dirs THEN [raised |-> FALSE, dirs |-> dirs]
    ELSE IF writable THEN [raised |-> FALSE, dirs |-> dirs \cup {task}]
    ELSE [raised |-> TRUE, dirs |-> dirs]

\* the file name under .cache/<task>
cache_file_name(ds) ==
    IF ds.some /\ ds.v # <<>>
    THEN replace(ds.v, "/", "_") \o <<".json">>
    ELSE <<"datasets", ".json">>

get_cache_path(task, ds, dirs, writable) ==
    LET m == mkdir_cache_dir(task, dirs, writable)
    IN  [raised |-> m.raised,
         dirs   |-> m.dirs,
         path   |-> <<".cache", "/">> \o task \o <<"/">> \o cache_file_name(ds)]

cache_is_fresh_inclusive(t, timestamp) == t - timestamp <= CacheTTL

\* time.time() - data.get("timestamp", 0) < 3600
cache_is_fresh(t, timestamp) == t - timestamp < CacheTTL

\* load_cache: the payload, or None; every exception is swallowed
load_cache(path, files, t) ==
    IF path \notin DOMAIN files THEN None
    ELSE LET parsed == json_load(files[path])
             data == parsed.doc
         IN  IF parsed.raised THEN None
             ELSE IF data.t # "obj" THEN None          \* data.get: AttributeError
             ELSE LET ts == IF "timestamp" \in DOMAIN data.v
                            THEN data.v["timestamp"] ELSE JNum(0)
                  IN  IF ts.t # "num" THEN None         \* TypeError
                      ELSE IF cache_is_fresh(t, ts.v)
                           THEN IF "datasets" \in DOMAIN data.v
                                THEN Some(json_value(data.v["datasets"]))
                                ELSE None
                           ELSE None

cache_record_misnamed(t, datasets) == [timestamp |-> t, dataset |-> datasets]

\* cache_data = {"timestamp": time.time(), "datasets": datasets}
cache_record(t, datasets) == [timestamp |-> t, datasets |-> datasets]

WriteOutcomes == {"ok", "partial"}

\* save_cache: open(cache_path, "w") and json.dump; every exception is
\* swallowed.  wr = "partial": the write fails after the file was truncated.
save_cache(path, datasets, files, t, writable, wr) ==
    IF ~writable THEN files
    ELSE LET content == IF wr = "ok"
                        THEN JsonFile(json_dump_dict(cache_record(t, datasets)))
                        ELSE Garbage
         IN  [p \in DOMAIN files \cup {path} |->
                 IF p = path THEN content ELSE files[p]]

CacheKey(task, ds) == [task |-> task, ds |-> ds]

\* history of what save_cache wrote, and for which key
stored_after(path, key, datasets, st, t, writable, wr) ==
    IF ~writable THEN st
    ELSE IF wr = "ok"
         THEN [p \in DOMAIN st \cup {path} |->
                 IF p = path
                 THEN [timestamp |-> t, payload |-> datasets, key |-> key]
                 ELSE st[p]]
         ELSE [p \in DOMAIN st \ {path} |-> st[p]]

----------------------------------------------------------------------------
(* The cache on its own: put(key, payload) is get_cache_path followed by   *)
(* save_cache, get(key) is get_cache_path followed by load_cache, as at    *)
(* every call site of the program.                                         *)

CacheKeys == {CacheKey(Denoising, NoDataset),
              CacheKey(Denoising, Dataset(<<"a", "/", "b">>))}

SummaryA == [name |-> <<"a">>, size |-> 3, size_human |-> naturalsize(3),
             file_count |-> 2]
FileF1 == [name |-> <<"f1">>,
           key |-> <<"resources", "/", "denoising", "/", "datasets", "/",
                     "a", "/", "b", "/", "f1">>,
           size |-> 1, md5 |-> <<"abc123", "-", "2">>]

Payloads == << <<>>, <<SummaryA>>, <<FileF1>> >>

NoCacheOp == [op |-> "none", key |-> CacheKey(<<>>, NoDataset), raised |-> FALSE,
              result |-> None, entry |-> None, at |-> 0]

Deltas == {1, CacheTTL - 1}

Tick(d) ==
    /\ ticks < MaxTicks
    /\ now' = now + d
    /\ ticks' = ticks + 1
    /\ lastCache' = NoCacheOp
    /\ UNCHANGED <<cacheDirs, cacheFiles, fsWritable, stored, lastPut>>

\* the working directory becomes read-only, or writable again
SetWritable(b) ==
    /\ fsWritable # b
    /\ fsWritable' = b
    /\ lastCache' = NoCacheOp
    /\ UNCHANGED <<now, ticks, cacheDirs, cacheFiles, stored, lastPut>>

\* another process leaves text that is no JSON in an existing cache file
Corrupt(path) ==
    /\ path \in DOMAIN cacheFiles
    /\ cacheFiles[path] # Garbage
    /\ cacheFiles' = [cacheFiles EXCEPT ![path] = Garbage]
    /\ stored' = [p \in DOMAIN stored \ {path} |-> stored[p]]
    /\ lastPut' = None
    /\ lastCache' = NoCacheOp
    /\ UNCHANGED <<now, ticks, cacheDirs, fsWritable>>

Put(key, payload, wr) ==
    LET g == get_cache_path(key.task, key.ds, cacheDirs, fsWritable)
    IN  /\ cacheDirs' = g.dirs
        /\ IF g.raised
           THEN /\ UNCHANGED <<cacheFiles, stored>>
                /\ lastPut' = None
           ELSE /\ cacheFiles' = save_cache(g.path, payload, cacheFiles, now,
                                            fsWritable, wr)
                /\ stored' = stored_after(g.path, key, payload, stored, now,
                                          fsWritable, wr)
                /\ lastPut' = Some([key |-> key, payload |-> payload, at |-> now,
                                    written |-> fsWritable /\ wr = "ok"])
        /\ lastCache' = [op |-> "put", key |-> key, raised |-> g.raised,
                         result |-> None, entry |-> None, at |-> now]
        /\ UNCHANGED <<now, ticks, fsWritable>>

Get(key) ==
    LET g == get_cache_path(key.task, key.ds, cacheDirs, fsWritable)
    IN  /\ cacheDirs' = g.dirs
        /\ lastCache' =
              [op |-> "get", key |-> key, raised |-> g.raised,
               result |-> IF g.raised THEN None
                          ELSE load_cache(g.path, cacheFiles, now),
               entry |-> IF g.path \in DOMAIN stored THEN Some(stored[g.path])
                         ELSE None,
               at |-> now]
        /\ UNCHANGED <<now, ticks, cacheFiles, fsWritable, stored, lastPut>>

CacheInit ==
    /\ now = StartTime
    /\ ticks = 0
    /\ cacheDirs = {}
    /\ cacheFiles = <<>>
    /\ fsWritable = TRUE
    /\ stored = <<>>
    /\ lastPut = None
    /\ lastCache = NoCacheOp

ListIdle ==
    /\ bucket = <<>>
    /\ lastList = [op |-> "none"]

FetchIdle ==
    /\ localFile = None
    /\ aria2Installed = FALSE
    /\ lastFetch = [op |-> "none"]

DownloadIdle ==
    /\ disk = <<>>
    /\ diskDirs = {}
    /\ job = [state |-> "idle"]
    /\ pool = <<>>
    /\ printLock = 0
    /\ writing = {}
    /\ taskRun = [state |-> "idle"]
    /\ lastSingle = [op |-> "none"]

InitCache == CacheInit /\ ListIdle /\ FetchIdle /\ DownloadIdle

NextCache ==
    \/ \E d \in Deltas : Tick(d) /\ UNCHANGED <<listVars, fetchVars, dlVars>>
    \/ \E b \in BOOLEAN : SetWritable(b) /\ UNCHANGED <<listVars, fetchVars, dlVars>>
    \/ \E p \in DOMAIN cacheFiles : Corrupt(p) /\ UNCHANGED <<listVars, fetchVars, dlVars>>
    \/ \E k \in CacheKeys, i \in DOMAIN Payloads, wr \in WriteOutcomes :
          Put(k, Payloads[i], wr) /\ UNCHANGED <<listVars, fetchVars, dlVars>>
    \/ \E k \in CacheKeys : Get(k) /\ UNCHANGED <<listVars, fetchVars, dlVars>>

SpecCache == InitCache /\ [][NextCache]_vars

----------------------------------------------------------------------------
(* Claims about the cache on its own (SpecCache).                          *)

\* C1: a get of a key whose file holds an entry written by put returns that
\* entry's payload exactly when now - timestamp < 3600 and is a miss
\* otherwise, so an entry aged exactly 3600 seconds is a miss.
C1_CacheExpiry ==
    (lastCache.op = "get" /\ ~lastCache.raised /\ lastCache.entry.some) =>
        lastCache.result =
            IF lastCache.at - lastCache.entry.v.timestamp < 3600
            THEN Some(lastCache.entry.v.payload)
            ELSE None

\* a get of a non-empty entry aged exactly 3600 seconds, which is a miss
C1_Witness ==
    /\ lastCache.op = "get"
    /\ lastCache.entry.some
    /\ lastCache.entry.v.payload # <<>>
    /\ lastCache.at - lastCache.entry.v.timestamp = 3600
    /\ lastCache.result = None

\* C2: a get of the key of the latest put, whose record was written, made
\* before the clock has advanced 3600 seconds since that put, returns a
\* payload equal to the one put (the empty list included).
C2_CacheRoundTrip ==
    (/\ lastCache.op = "get"
     /\ lastPut.some
     /\ lastPut.v.written
     /\ lastPut.v.key = lastCache.key
     /\ lastCache.at - lastPut.v.at < 3600) =>
        (~lastCache.raised /\ lastCache.result = Some(lastPut.v.payload))

\* a get 3599 seconds after the put of a file listing, returning that listing
C2_Witness ==
    /\ lastCache.op = "get"
    /\ lastPut.some
    /\ lastPut.v.written
    /\ lastPut.v.key = lastCache.key
    /\ lastPut.v.payload = <<FileF1>>
    /\ lastCache.at - lastPut.v.at = 3599
    /\ lastCache.result = Some(<<FileF1>>)

\* the round trip of the empty list: the result is [], not a miss
C2_WitnessEmpty ==
    /\ lastCache.op = "get"
    /\ lastPut.some
    /\ lastPut.v.written
    /\ lastPut.v.key = lastCache.key
    /\ lastPut.v.payload = <<>>
    /\ lastCache.result = Some(<<>>)

----------------------------------------------------------------------------
(* File contents and their MD5 digests.  A file is a sequence of bytes     *)
(* over {0, 1}; hashlib.md5 is a function of the content into 32 lowercase *)
(* hex digits, one-to-one on the contents of the model.                    *)

MaxFileLen == 2

HexDigits == <<"0", "1", "2", "3", "4", "5", "6", "7", "8", "9",
               "a", "b", "c", "d", "e", "f">>
UpperHex == <<"0", "1", "2", "3", "4", "5", "6", "7", "8", "9",
              "A", "B", "C", "D", "E", "F">>
Md5HexLen == 32

Contents == UNION {[1..n -> {0, 1}] : n \in 0..MaxFileLen}

RECURSIVE content_code(_)
content_code(c) ==
    IF c = <<>> THEN 0 ELSE 2 * content_code(SubSeq(c, 1, Len(c) - 1)) + 1 + c[Len(c)]

\* calculate_md5(filepath): hash_md5.hexdigest()
calculate_md5(c) ==
    [i \in 1..Md5HexLen |-> HexDigits[((content_code(c) + i) % 16) + 1]]

\* str.lower() and str.upper() on strings of hex digits
lower(s) ==
    [i \in 1..Len(s) |->
        IF \E k \in 11..16 : UpperHex[k] = s[i]
        THEN HexDigits[CHOOSE k \in 11..16 : UpperHex[k] = s[i]]
        ELSE s[i]]
upper(s) ==
    [i \in 1..Len(s) |->
        IF \E k \in 11..16 : HexDigits[k] = s[i]
        THEN UpperHex[CHOOSE k \in 11..16 : HexDigits[k] = s[i]]
        ELSE s[i]]

\* the entity tag of a multipart upload: <hash>-<partcount>
CompositeTag == <<"a", "b", "c", "1", "2", "3", "-", "2">>

----------------------------------------------------------------------------
(* The listing client.                                                     *)

MaxKeys == 1000

Quote == "\""
Etag(tag) == <<Quote>> \o tag \o <<Quote>>

Obj(key, size, etag) == [key |-> key, size |-> size, etag |-> etag]

DenoisingRoot == <<"resources", "/", "denoising", "/", "datasets", "/">>
CccRoot == <<"resources", "/">> \o CccS3Path \o <<"/", "datasets", "/">>

\* the objects a bucket may hold, in the key order of the listing endpoint
AllObjects ==
    << Obj(CccRoot \o <<"a", "/", "f1">>, 2, Etag(calculate_md5(<<1, 1>>))),
       Obj(CccRoot \o <<"b", "/", "f1">>, 1, Etag(calculate_md5(<<1>>))),
       Obj(DenoisingRoot \o <<"a", "/">>, 0, Etag(calculate_md5(<<>>))),
       Obj(DenoisingRoot \o <<"a", "/", "b", "/", "f1">>, 2, Etag(CompositeTag)),
       Obj(DenoisingRoot \o <<"a", "/", "f1">>, 1, Etag(calculate_md5(<<1>>))),
       Obj(DenoisingRoot \o <<"a", "_", "b", "/", "f2">>, 1, Etag(calculate_md5(<<0>>))),
       Obj(DenoisingRoot \o <<"top">>, 1, Etag(calculate_md5(<<0>>))) >>

\* the bucket holding the objects numbered in S
BucketOf(S) ==
    LET F[k \in 0..Len(AllObjects)] ==
            IF k = 0 THEN <<>>
            ELSE IF k \in S THEN Append(F[k - 1], AllObjects[k]) ELSE F[k - 1]
    IN  F[Len(AllObjects)]

Tasks == {Denoising, CccSourceTarget}

CccLigandTarget ==
    <<"cell", "_", "cell", "_", "communication", "_", "ligand", "_", "target">>

\* TASK_TO_S3_PATH.get(task, task)
get_s3_task_path(task) ==
    IF task = CccSourceTarget \/ task = CccLigandTarget THEN CccS3Path ELSE task

\* f"resources/{s3_task}/datasets/"
task_prefix(s3_task) == <<"resources", "/">> \o s3_task \o <<"/", "datasets", "/">>

\* f"resources/{s3_task}/datasets/{dataset_name}/"
dataset_prefix(s3_task, name) ==
    <<"resources", "/">> \o s3_task \o <<"/", "datasets", "/">> \o name \o <<"/">>

\* the listing endpoint: the first max-keys objects whose key has the prefix
s3_list_objects(bkt, prefix) ==
    LET Under(o) == startswith(o.key, prefix)
        found == SelectSeq(bkt, Under)
    IN  IF Len(found) > MaxKeys THEN SubSeq(found, 1, MaxKeys) ELSE found

Statuses == {200, 403, 503}

status_ignored(status) == FALSE

\* response.raise_for_status(): HTTPError on a 4xx or 5xx status
raise_for_status(status) == status >= 400

dataset_path_with_filename(key, prefix) ==
    join("/", split(SubSeq(key, Len(prefix) + 1, Len(key)), "/"))

\* relative_path.split("/")[:-1], joined by "/"
dataset_path_of(key, prefix) ==
    LET parts == split(SubSeq(key, Len(prefix) + 1, Len(key)), "/")
    IN  join("/", SubSeq(parts, 1, Len(parts) - 1))

\* the loop of lines 83-104: dataset path -> {size, file_count}
RECURSIVE dataset_info_of(_, _)
dataset_info_of(response, prefix) ==
    IF response = <<>> THEN <<>>
    ELSE LET n == Len(response)
             info == dataset_info_of(SubSeq(response, 1, n - 1), prefix)
             o == response[n]
             dp == dataset_path_of(o.key, prefix)
         IN  IF endswith(o.key, "/") \/ ~startswith(o.key, prefix) \/ dp = <<>>
             THEN info
             ELSE [d \in DOMAIN info \cup {dp} |->
                     IF d = dp
                     THEN IF dp \in DOMAIN info
                          THEN [size |-> info[dp].size + o.size,
                                file_count |-> info[dp].file_count + 1]
                          ELSE [size |-> o.size, file_count |-> 1]
                     ELSE info[d]]

\* the order of Python's str comparison on the symbols of dataset paths
SymbolOrder == <<"/", "_", "a", "b", "datasets">>
symbol_rank(x) == CHOOSE i \in 1..Len(SymbolOrder) : SymbolOrder[i] = x

RECURSIVE str_less(_, _)
str_less(a, b) ==
    IF b = <<>> THEN FALSE
    ELSE IF a = <<>> THEN TRUE
    ELSE IF a[1] = b[1] THEN str_less(Tail(a), Tail(b))
    ELSE symbol_rank(a[1]) < symbol_rank(b[1])

\* sorted(names)
RECURSIVE sorted(_)
sorted(names) ==
    IF names = {} THEN <<>>
    ELSE LET m == CHOOSE x \in names : \A y \in names \ {x} : str_less(x, y)
         IN  <<m>> \o sorted(names \ {m})

\* lines 82-117: the dataset summaries of a listing response
dataset_summaries(response, prefix) ==
    LET info == dataset_info_of(response, prefix)
        names == sorted(DOMAIN info)
    IN  [i \in 1..Len(names) |->
            [name |-> names[i],
             size |-> info[names[i]].size,
             size_human |-> naturalsize(info[names[i]].size),
             file_count |-> info[names[i]].file_count]]

keeps_every_object(key, prefix) == ~endswith(key, "/")

\* key.startswith(dataset_prefix) and not key.endswith("/")
is_dataset_file(key, prefix) == startswith(key, prefix) /\ ~endswith(key, "/")

\* lines 126-148: the file records of a dataset
dataset_files(response, prefix) ==
    LET Keep(o) == is_dataset_file(o.key, prefix)
        kept == SelectSeq(response, Keep)
    IN  [i \in 1..Len(kept) |->
            LET parts == split(kept[i].key, "/")
            IN  [name |-> parts[Len(parts)],
                 key  |-> kept[i].key,
                 size |-> kept[i].size,
                 md5  |-> strip(kept[i].etag, Quote)]]

\* "if cached:" -- None and the empty list both count as a miss
cache_hit(cached) == Truthy(cached)

ListOutcome(raised, requests, result, response, dirs, files, st) ==
    [raised |-> raised, requests |-> requests, result |-> result,
     response |-> response, dirs |-> dirs, files |-> files, stored |-> st]

\* lines 119-123: save_cache(cache_path, result); return result
store_summaries(task, wr, files, st, t, writable, g, response, result) ==
    ListOutcome(FALSE, 1, Some(result), response, g.dirs,
        save_cache(g.path, result, files, t, writable, wr),
        stored_after(g.path, CacheKey(task, NoDataset), result, st, t, writable, wr))

\* lines 77-148: the result built from the parsed response
parse_listing(task, ds, wr, files, st, t, writable, g, response, s3_task) ==
    IF ~ds.some
    THEN store_summaries(task, wr, files, st, t, writable, g, response,
             dataset_summaries(response, task_prefix(s3_task)))
    ELSE ListOutcome(FALSE, 1,
             Some(dataset_files(response, dataset_prefix(s3_task, ds.v))),
             response, g.dirs, files, st)

\* lines 65-75: the one request, and raise_for_status
list_request(task, ds, status, wr, bkt, files, st, t, writable, g) ==
    IF raise_for_status(status)
    THEN ListOutcome(TRUE, 1, None, <<>>, g.dirs, files, st)
    ELSE parse_listing(task, ds, wr, files, st, t, writable, g,
             s3_list_objects(bkt, task_prefix(get_s3_task_path(task))),
             get_s3_task_path(task))

\* lines 59-63: the cache lookup of a task listing; g is what get_cache_path
\* did, cached what load_cache returned
list_cached(task, ds, status, wr, bkt, files, st, t, writable, g, cached) ==
    IF g.raised THEN ListOutcome(TRUE, 0, None, <<>>, g.dirs, files, st)
    ELSE IF cache_hit(cached)
    THEN ListOutcome(FALSE, 0, cached, <<>>, g.dirs, files, st)
    ELSE list_request(task, ds, status, wr, bkt, files, st, t, writable, g)

list_task(task, ds, status, wr, bkt, files, st, t, writable, g) ==
    list_cached(task, ds, status, wr, bkt, files, st, t, writable, g,
                load_cache(g.path, files, t))

\* list_datasets(task, dataset_name): status is the endpoint's answer to the
\* one request it may issue, wr the outcome of the cache write it may make
list_datasets(task, ds, status, wr, bkt, dirs, files, st, t, writable) ==
    IF ds.some
    THEN list_request(task, ds, status, wr, bkt, files, st, t, writable,
             [raised |-> FALSE, dirs |-> dirs, path |-> <<>>])
    ELSE list_task(task, ds, status, wr, bkt, files, st, t, writable,
             get_cache_path(task, NoDataset, dirs, writable))

\* line 529: save_cache(cache_path, files), unless list_datasets raised
store_file_list(task, name, wr, t, writable, g, r) ==
    IF r.raised THEN r
    ELSE ListOutcome(FALSE, r.requests, r.result, r.response, r.dirs,
             save_cache(g.path, r.result.v, r.files, t, writable, wr),
             stored_after(g.path, CacheKey(task, Dataset(name)), r.result.v,
                          r.stored, t, writable, wr))

\* lines 524-529: "if files is None" -- a cached empty list is a hit
file_list_cached(task, name, status, wr, bkt, files, st, t, writable, g, cached) ==
    IF g.raised THEN ListOutcome(TRUE, 0, None, <<>>, g.dirs, files, st)
    ELSE IF cached.some
    THEN ListOutcome(FALSE, 0, cached, <<>>, g.dirs, files, st)
    ELSE store_file_list(task, name, wr, t, writable, g,
             list_datasets(task, Dataset(name), status, wr, bkt, g.dirs, files, st,
                           t, writable))

file_list_at(task, name, status, wr, bkt, files, st, t, writable, g) ==
    file_list_cached(task, name, status, wr, bkt, files, st, t, writable, g,
                     load_cache(g.path, files, t))

\* fetch_entire_dataset, lines 522-529: the file list of a dataset, from the
\* cache or from the listing client
dataset_file_list(task, name, status, wr, bkt, dirs, files, st, t, writable) ==
    file_list_at(task, name, status, wr, bkt, files, st, t, writable,
                 get_cache_path(task, Dataset(name), dirs, writable))

\* the entry the history holds for a key's cache file
entry_of(task, ds, dirs, st) ==
    LET path == get_cache_path(task, ds, dirs, TRUE).path
    IN  IF path \in DOMAIN st THEN Some(st[path]) ELSE None

NoListOp == [op |-> "none", task |-> <<>>, ds |-> NoDataset, status |-> 0,
             raised |-> FALSE, requests |-> 0, result |-> None, response |-> <<>>,
             entry |-> None]

\* the effect of a listing call with outcome r
ApplyListing(op, task, ds, status, r, entry) ==
    /\ cacheDirs' = r.dirs
    /\ cacheFiles' = r.files
    /\ stored' = r.stored
    /\ lastList' = [op |-> op, task |-> task, ds |-> ds, status |-> status,
                    raised |-> r.raised, requests |-> r.requests,
                    result |-> r.result, response |-> r.response, entry |-> entry]
    /\ UNCHANGED <<now, ticks, fsWritable, lastPut, lastCache, bucket>>

\* a call of list_datasets(task) or list_datasets(task, dataset_name)
ListDatasets(task, ds, status, wr) ==
    ApplyListing("list", task, ds, status,
        list_datasets(task, ds, status, wr, bucket, cacheDirs, cacheFiles, stored,
                      now, fsWritable),
        IF ds.some THEN None ELSE entry_of(task, ds, cacheDirs, stored))

\* the listing phase of fetch_entire_dataset(task, dataset_name)
FetchDatasetListing(task, name, status, wr) ==
    ApplyListing("fetch_listing", task, Dataset(name), status,
        dataset_file_list(task, name, status, wr, bucket, cacheDirs, cacheFiles,
                          stored, now, fsWritable),
        entry_of(task, Dataset(name), cacheDirs, stored))

\* the environment of a listing: the clock, the file system, other processes
ListTick(d) == Tick(d) /\ lastList' = NoListOp /\ UNCHANGED bucket
ListSetWritable(b) == SetWritable(b) /\ lastList' = NoListOp /\ UNCHANGED bucket
ListCorrupt(path) == Corrupt(path) /\ lastList' = NoListOp /\ UNCHANGED bucket

DatasetNames == {<<"a">>, <<"a", "/", "b">>}
DatasetArgs == {NoDataset} \cup {Dataset(n) : n \in DatasetNames}

\* the buckets of Spec: empty; one task with a nested dataset, a directory
\* marker and a direct child; both tasks
Buckets == {BucketOf({}), BucketOf({3, 4, 5, 7}), BucketOf({1, 5})}

Init ==
    /\ CacheInit
    /\ bucket \in Buckets
    /\ lastList = NoListOp
    /\ FetchIdle
    /\ DownloadIdle

Next ==
    \/ \E d \in Deltas : ListTick(d) /\ UNCHANGED <<fetchVars, dlVars>>
    \/ \E b \in BOOLEAN : ListSetWritable(b) /\ UNCHANGED <<fetchVars, dlVars>>
    \/ \E p \in DOMAIN cacheFiles : ListCorrupt(p) /\ UNCHANGED <<fetchVars, dlVars>>
    \/ \E ds \in DatasetArgs, status \in Statuses, wr \in WriteOutcomes :
          ListDatasets(Denoising, ds, status, wr) /\ UNCHANGED <<fetchVars, dlVars>>
    \/ \E status \in Statuses, wr \in WriteOutcomes :
          FetchDatasetListing(Denoising, <<"a", "/", "b">>, status, wr)
              /\ UNCHANGED <<fetchVars, dlVars>>

Spec == Init /\ [][Next]_vars

\* every bucket, a clock that stands still and a writable working directory
InitParse ==
    /\ CacheInit
    /\ bucket \in {BucketOf(S) : S \in SUBSET (1..Len(AllObjects))}
    /\ lastList = NoListOp
    /\ FetchIdle
    /\ DownloadIdle

NextParse ==
    \E task \in Tasks, ds \in DatasetArgs, status \in Statuses :
        ListDatasets(task, ds, status, "ok") /\ UNCHANGED <<fetchVars, dlVars>>

SpecParse == InitParse /\ [][NextParse]_vars

----------------------------------------------------------------------------
(* The transfer backends.                                                  *)

\* check_aria2(): shutil.which("aria2c") is not None
check_aria2(installed) == installed

HexSymbols == {HexDigits[i] : i \in 1..16}

\* lines 176-180: a non-empty string of 32 hex digits, of either case
is_valid_md5(expected_md5) ==
    /\ expected_md5 # <<>>
    /\ Len(expected_md5) = Md5HexLen
    /\ \A i \in 1..Len(expected_md5) : lower(expected_md5)[i] \in HexSymbols

size_unchecked(actual_size, expected_size) == FALSE

\* "if actual_size != expected_size" of both backends
size_mismatch(actual_size, expected_size) == actual_size # expected_size

\* what a run of aria2c can do: subprocess.run raises (the tool is gone), or
\* the tool exits with a code and leaves a file, or none, at the output
\* path.  Given --checksum=md5=<h> it exits with 0 only when the file it
\* leaves has the digest h.
Aria2Runs(checksum, file0) ==
    {[raised |-> TRUE, rc |-> 1, file |-> file0]}
    \cup {run \in [raised : {FALSE}, rc : {0, 1},
                    file : {None} \cup {Some(c) : c \in Contents}] :
            (run.rc = 0 /\ checksum.some) =>
                (run.file.some /\ calculate_md5(run.file.v) = lower(checksum.v))}

aria2_exit_ignored(returncode) == TRUE

\* line 221: "if result.returncode == 0"
aria2_succeeded(returncode) == returncode = 0

\* the outcome of a fetchFile call: its return value, the file it leaves at
\* local_path, whether a transfer was started, whether it ran to its end
\* (aria2c exited with 0, the body arrived whole), and the bytes it brought
FetchOutcome(ok, file, attempted, completed, arrived) ==
    [ok |-> ok, file |-> file, attempted |-> attempted, completed |-> completed,
     arrived |-> arrived]

\* the --checksum argument of the command line, lines 198-199
aria2_checksum_arg(expected_md5) ==
    IF is_valid_md5(expected_md5) THEN Some(expected_md5) ELSE None

\* fetch_file_aria2: probe is the result of its own check_aria2(), run what
\* the subprocess did
fetch_file_aria2(expected_md5, expected_size, file0, probe, run) ==
    IF ~check_aria2(probe) THEN FetchOutcome(FALSE, file0, FALSE, FALSE, None)
    ELSE IF run.raised THEN FetchOutcome(FALSE, file0, TRUE, FALSE, None)
    ELSE IF aria2_succeeded(run.rc)
    THEN IF ~run.file.some                  \* local_path.stat() raises
         THEN FetchOutcome(FALSE, run.file, TRUE, TRUE, run.file)
         ELSE IF size_mismatch(Len(run.file.v), expected_size)
         THEN FetchOutcome(FALSE, run.file, TRUE, TRUE, run.file)
         ELSE FetchOutcome(TRUE, run.file, TRUE, TRUE, run.file)
    ELSE FetchOutcome(FALSE, run.file, TRUE, FALSE, run.file)

\* what the streamed GET of the fallback can do: the request fails, or is
\* answered with an error status, or the body arrives whole, or iter_content
\* raises after the first cut bytes of it
HttpTransfers ==
    {[reached |-> FALSE, status |-> 200, body |-> <<>>, cut |-> 0]}
    \cup {[reached |-> TRUE, status |-> st, body |-> <<>>, cut |-> 0] :
            st \in Statuses \ {200}}
    \cup {h \in [reached : {TRUE}, status : {200}, body : Contents,
                  cut : 0..MaxFileLen] : h.cut <= Len(h.body)}

\* fetch_file_fallback: the except clause removes the file, the two
\* verification failures return False from inside the try
fetch_file_fallback(expected_md5, expected_size, file0, h) ==
    IF ~h.reached \/ raise_for_status(h.status)
    THEN FetchOutcome(FALSE, None, TRUE, FALSE, None)
    ELSE IF h.cut < Len(h.body)
    THEN FetchOutcome(FALSE, None, TRUE, FALSE, Some(SubSeq(h.body, 1, h.cut)))
    ELSE IF size_mismatch(Len(h.body), expected_size)
    THEN FetchOutcome(FALSE, Some(h.body), TRUE, TRUE, Some(h.body))
    ELSE IF calculate_md5(h.body) # expected_md5
    THEN FetchOutcome(FALSE, Some(h.body), TRUE, TRUE, Some(h.body))
    ELSE FetchOutcome(TRUE, Some(h.body), TRUE, TRUE, Some(h.body))

\* the checksums a file record can carry: digests, a digest in upper case,
\* a multipart tag, the empty string
Checksums ==
    {calculate_md5(<<1>>), calculate_md5(<<0, 1>>), upper(calculate_md5(<<1>>)),
     CompositeTag, <<>>}

NoFetchOp == [op |-> "none", backend |-> "none", md5 |-> <<>>, size |-> 0,
              ok |-> FALSE, attempted |-> FALSE, completed |-> FALSE,
              arrived |-> None, rc |-> None]

\* rc is the exit code of the subprocess, if one ran and exited
FetchRecord(backend, md5, size, r, rc) ==
    [op |-> "fetch", backend |-> backend, md5 |-> md5, size |-> size, ok |-> r.ok,
     attempted |-> r.attempted, completed |-> r.completed, arrived |-> r.arrived,
     rc |-> rc]

\* the exit code fetch_file_aria2 reads, if subprocess.run returned one
exit_code(probe, run) ==
    IF check_aria2(probe) /\ ~run.raised THEN Some(run.rc) ELSE None

\* fetchFile, lines 466-473 and 504-511: "if check_aria2(): fetch_file_aria2
\* else: fetch_file_fallback".  probe is what the backend's own check_aria2()
\* finds, which another process may have changed since the first probe.
FetchFileAccelerated(md5, size, probe, run) ==
    /\ check_aria2(aria2Installed)
    /\ LET r == fetch_file_aria2(md5, size, localFile, probe, run)
       IN  /\ localFile' = r.file
           /\ lastFetch' = FetchRecord("aria2", md5, size, r, exit_code(probe, run))
    /\ aria2Installed' = probe

FetchFileFallback(md5, size, h) ==
    /\ ~check_aria2(aria2Installed)
    /\ LET r == fetch_file_fallback(md5, size, localFile, h)
       IN  /\ localFile' = r.file
           /\ lastFetch' = FetchRecord("fallback", md5, size, r, None)
    /\ UNCHANGED aria2Installed

\* aria2c is installed or removed
SetAria2(b) ==
    /\ aria2Installed # b
    /\ aria2Installed' = b
    /\ lastFetch' = NoFetchOp
    /\ UNCHANGED localFile

InitFetch ==
    /\ CacheInit
    /\ ListIdle
    /\ localFile \in {None} \cup {Some(c) : c \in Contents}
    /\ aria2Installed \in BOOLEAN
    /\ lastFetch = NoFetchOp
    /\ DownloadIdle

NextFetch ==
    \/ \E md5 \in Checksums, size \in 0..MaxFileLen, probe \in BOOLEAN :
          \E run \in Aria2Runs(aria2_checksum_arg(md5), localFile) :
              FetchFileAccelerated(md5, size, probe, run)
                  /\ UNCHANGED <<cacheVars, listVars, dlVars>>
    \/ \E md5 \in Checksums, size \in 0..MaxFileLen, h \in HttpTransfers :
          FetchFileFallback(md5, size, h) /\ UNCHANGED <<cacheVars, listVars, dlVars>>
    \/ \E b \in BOOLEAN : SetAria2(b) /\ UNCHANGED <<cacheVars, listVars, dlVars>>

SpecFetch == InitFetch /\ [][NextFetch]_vars

----------------------------------------------------------------------------
(* The download coordinator: fetch_entire_dataset and its worker pool.    *)

MaxWorkers == 2        \* the largest max_workers a behaviour is run with

\* dataset_dir / file_info["name"], dataset_dir being Path("datasets") / dataset_name
local_path(name, filename) == <<"datasets", "/">> \o name \o <<"/">> \o filename

\* the file at a path: None when the path does not exist
file_at(d, path) == IF path \in DOMAIN d THEN Some(d[path]) ELSE None

\* the files of a directory tree after a call has left file (or nothing) at path
write_file(d, path, file) ==
    IF file.some
    THEN [q \in DOMAIN d \cup {path} |-> IF q = path THEN file.v ELSE d[q]]
    ELSE [q \in DOMAIN d \ {path} |-> d[q]]

exists_only(file_info, file) == file.some

\* line 489: local_path.exists() and local_path.stat().st_size == file_info["size"]
already_downloaded(file_info, file) == file.some /\ Len(file.v) = file_info.size

\* sum(f["size"] for f in files)
RECURSIVE total_size(_)
total_size(files) ==
    IF files = <<>> THEN 0 ELSE files[1].size + total_size(Tail(files))

\* lines 553-561: the sizes of the files whose local path does not exist
RECURSIVE missing_size(_, _, _, _)
missing_size(files, name, d, dirs) ==
    IF name \notin dirs THEN total_size(files)
    ELSE IF files = <<>> THEN 0
    ELSE (IF local_path(name, files[1].name) \in DOMAIN d THEN 0 ELSE files[1].size)
         + missing_size(Tail(files), name, d, dirs)

\* lines 550-559: the names of the files whose local path exists
existing_files(files, name, d, dirs) ==
    IF name \notin dirs THEN <<>>
    ELSE LET Exists(f) == local_path(name, f.name) \in DOMAIN d
         IN  SelectSeq(files, Exists)

\* a worker before the executor has run it
QueuedWorker == [pc |-> "queued", seen |-> None, backend |-> "none",
                 attempted |-> FALSE, ok |-> FALSE]

\* line 590-601: one future per file, in the order of the listing
submitted(files) == [i \in 1..Len(files) |-> QueuedWorker]

\* a call of fetch_entire_dataset; again says that it follows a call for the
\* same dataset that returned success
Call(task, name, skip, max_workers, again) ==
    [task |-> task, name |-> name, skip |-> skip, max_workers |-> max_workers,
     again |-> again]

\* before is the datasets directory when the call was made; answer is what
\* Confirm.ask returned, None when it was not called
JobRecord(state, call, files, before, answer, raised, result) ==
    [state |-> state, call |-> call, files |-> files, before |-> before,
     prompted |-> answer.some, answer |-> answer, raised |-> raised,
     result |-> result, succeeded |-> 0, total |-> Len(files)]

EntryOutcome(j, p, dirs) == [job |-> j, pool |-> p, dirs |-> dirs]

\* lines 563-593: the confirmation gate, then the directory and the
\* submission of the workers; answer is what Confirm.ask returns if called
gate(call, answer, files, before, missing) ==
    IF call.skip
    THEN EntryOutcome(JobRecord("pool", call, files, before, None, FALSE, FALSE),
                      submitted(files), before.dirs \cup {call.name})
    ELSE IF ~(missing > 0)
    THEN EntryOutcome(JobRecord("returned", call, files, before, None, FALSE, TRUE),
                      <<>>, before.dirs)
    ELSE IF ~answer
    THEN EntryOutcome(JobRecord("returned", call, files, before, Some(FALSE), FALSE,
                                FALSE),
                      <<>>, before.dirs)
    ELSE EntryOutcome(JobRecord("pool", call, files, before, Some(TRUE), FALSE, FALSE),
                      submitted(files), before.dirs \cup {call.name})

\* fetch_entire_dataset, lines 531-593, from the file list to the submission
\* of the workers
dataset_entry(call, answer, files, before, writable) ==
    IF files = <<>>
    THEN EntryOutcome(JobRecord("returned", call, files, before, None, FALSE, FALSE),
                      <<>>, before.dirs)
    ELSE IF call.skip /\ call.name \notin before.dirs /\ ~writable   \* line 580 raises
    THEN EntryOutcome(JobRecord("returned", call, files, before, None, TRUE, FALSE),
                      <<>>, before.dirs)
    ELSE gate(call, answer, files, before,
              missing_size(files, call.name, before.files, before.dirs))

\* fetch_entire_dataset, lines 522-593: r is what the listing phase did
dataset_start(call, answer, r, before, writable) ==
    IF r.raised
    THEN EntryOutcome(JobRecord("returned", call, <<>>, before, None, TRUE, FALSE),
                      <<>>, before.dirs)
    ELSE dataset_entry(call, answer, r.result.v, before, writable)

\* the effect of entering fetch_entire_dataset with listing outcome r and
\* entry outcome e
ApplyStart(r, e) ==
    /\ cacheDirs' = r.dirs
    /\ cacheFiles' = r.files
    /\ stored' = r.stored
    /\ job' = e.job
    /\ pool' = e.pool
    /\ diskDirs' = e.dirs
    /\ UNCHANGED <<now, ticks, fsWritable, lastPut, lastCache, listVars, fetchVars,
                   disk, printLock, writing, lastSingle>>

StartWith(call, answer, r) ==
    ApplyStart(r, dataset_start(call, answer, r,
                                [files |-> disk, dirs |-> diskDirs], fsWritable))

\* fetch_entire_dataset(task, dataset_name, skip_confirmation, max_workers) up
\* to the submission of the workers
StartDataset(call, answer, status, wr) ==
    StartWith(call, answer,
        dataset_file_list(call.task, call.name, status, wr, bucket, cacheDirs,
                          cacheFiles, stored, now, fsWritable))

\* ThreadPoolExecutor(max_workers): the workers that a thread is running
running(p) == {i \in DOMAIN p : p[i].pc \notin {"queued", "done"}}

pool_unbounded(n, max_workers) == TRUE

\* a thread of the executor is idle
pool_has_idle_thread(n, max_workers) == n < max_workers

\* the executor runs its work items in the order of their submission
next_queued(p, i) == p[i].pc = "queued" /\ \A k \in 1..(i - 1) : p[k].pc # "queued"

\* the transfers in flight: a subprocess that runs, a GET that streams
in_flight(p) == {i \in DOMAIN p : p[i].pc \in {"aria2_run", "fallback_get"}}

\* the status lines of a worker, each written under "with lock:"
LockedLines == {"skip_msg", "start_msg", "fail_msg"}

\* the lines of the backends, written with print() and no lock, and the
\* console output of the subprocess
UnlockedLines == {"aria2_missing", "aria2_head", "fallback_head", "tail"}

WorkerSteps ==
    UNCHANGED <<cacheVars, listVars, localFile, lastFetch, diskDirs, job, taskRun,
                lastSingle>>

\* download_single_file_worker, lines 483-489: a thread takes the next work
\* item and looks at the local path
Dispatch(i) ==
    /\ job.state = "pool"
    /\ i \in DOMAIN pool
    /\ next_queued(pool, i)
    /\ pool_has_idle_thread(Cardinality(running(pool)), job.call.max_workers)
    /\ pool' = [pool EXCEPT ![i] =
          [@ EXCEPT !.seen = Some(file_at(disk, local_path(job.call.name,
                                                           job.files[i].name))),
                    !.pc = IF already_downloaded(job.files[i],
                                 file_at(disk, local_path(job.call.name,
                                                          job.files[i].name)))
                           THEN "skip_msg" ELSE "start_msg"]]
    /\ UNCHANGED <<disk, printLock, writing, aria2Installed>>
    /\ WorkerSteps

\* "with lock:" entered, the line is being written
AcquireLock(i) ==
    /\ job.state = "pool"
    /\ i \in DOMAIN pool
    /\ pool[i].pc \in LockedLines
    /\ printLock = 0
    /\ printLock' = i
    /\ writing' = writing \cup {i}
    /\ UNCHANGED <<disk, pool, aria2Installed>>
    /\ WorkerSteps

\* the worker after its status line: done after "Skipping" (line 495) and
\* after "Failed to download" (line 517); after "Downloading" the probe of
\* line 504 and the entry into the backend it selects
after_line(w, installed) ==
    IF w.pc = "skip_msg" THEN [w EXCEPT !.pc = "done", !.ok = TRUE]
    ELSE IF w.pc = "fail_msg" THEN [w EXCEPT !.pc = "done", !.ok = FALSE]
    ELSE IF check_aria2(installed)
    THEN [w EXCEPT !.pc = "aria2_entered", !.backend = "aria2"]
    ELSE [w EXCEPT !.pc = "fallback_head", !.backend = "fallback"]

\* the line is written, "with lock:" left
ReleaseLock(i) ==
    /\ job.state = "pool"
    /\ i \in DOMAIN pool
    /\ pool[i].pc \in LockedLines
    /\ printLock = i
    /\ printLock' = 0
    /\ pool' = [pool EXCEPT ![i] = after_line(pool[i], aria2Installed)]
    /\ writing' = IF pool'[i].pc \in UnlockedLines THEN writing ELSE writing \ {i}
    /\ UNCHANGED <<disk, aria2Installed>>
    /\ WorkerSteps

\* fetch_file_aria2, lines 167-171 and 215: its own probe, then the error
\* lines or the first line of the download
Aria2Probe(i) ==
    /\ job.state = "pool"
    /\ i \in DOMAIN pool
    /\ pool[i].pc = "aria2_entered"
    /\ pool' = [pool EXCEPT ![i] =
          [@ EXCEPT !.pc = IF check_aria2(aria2Installed) THEN "aria2_head"
                           ELSE "aria2_missing",
                    !.ok = FALSE]]
    /\ writing' = writing \cup {i}
    /\ UNCHANGED <<disk, printLock, aria2Installed>>
    /\ WorkerSteps

\* the worker after a line of a backend
after_backend_line(w) ==
    IF w.pc = "aria2_missing" THEN [w EXCEPT !.pc = "fail_msg"]
    ELSE IF w.pc = "aria2_head" THEN [w EXCEPT !.pc = "aria2_run", !.attempted = TRUE]
    ELSE IF w.pc = "fallback_head"
    THEN [w EXCEPT !.pc = "fallback_get", !.attempted = TRUE]
    ELSE IF w.ok THEN [w EXCEPT !.pc = "done"] ELSE [w EXCEPT !.pc = "fail_msg"]

\* a backend has written its lines (216, 256-260, 225-247, 279-307)
EndLine(i) ==
    /\ job.state = "pool"
    /\ i \in DOMAIN pool
    /\ pool[i].pc \in UnlockedLines
    /\ writing' = writing \ {i}
    /\ pool' = [pool EXCEPT ![i] = after_backend_line(pool[i])]
    /\ UNCHANGED <<disk, printLock, aria2Installed>>
    /\ WorkerSteps

\* the effect of a finished transfer of worker i with outcome r
ApplyTransfer(i, path, r) ==
    /\ disk' = write_file(disk, path, r.file)
    /\ pool' = [pool EXCEPT ![i] = [@ EXCEPT !.pc = "tail", !.ok = r.ok]]
    /\ writing' = writing \cup {i}
    /\ UNCHANGED <<printLock, aria2Installed>>
    /\ WorkerSteps

\* fetch_file_aria2, lines 219-251: the subprocess ends
Aria2Finish(i, run) ==
    /\ job.state = "pool"
    /\ i \in DOMAIN pool
    /\ pool[i].pc = "aria2_run"
    /\ ApplyTransfer(i, local_path(job.call.name, job.files[i].name),
          fetch_file_aria2(job.files[i].md5, job.files[i].size,
              file_at(disk, local_path(job.call.name, job.files[i].name)),
              TRUE, run))

\* fetch_file_fallback, lines 262-310: the GET ends
FallbackFinish(i, h) ==
    /\ job.state = "pool"
    /\ i \in DOMAIN pool
    /\ pool[i].pc = "fallback_get"
    /\ ApplyTransfer(i, local_path(job.call.name, job.files[i].name),
          fetch_file_fallback(job.files[i].md5, job.files[i].size,
              file_at(disk, local_path(job.call.name, job.files[i].name)), h))

returns_on_first(p) == \E i \in DOMAIN p : p[i].pc = "done"

\* lines 596-607: as_completed has yielded every future and the executor
\* has shut down
all_completed(p) == \A i \in DOMAIN p : p[i].pc = "done"

\* lines 604-607: success_count
success_count(p) == Cardinality({i \in DOMAIN p : p[i].pc = "done" /\ p[i].ok})

\* fetch_entire_dataset, lines 596-620: every worker is done, the tally
JobReturn ==
    /\ job.state = "pool"
    /\ all_completed(pool)
    /\ job' = [job EXCEPT !.state = "returned",
                          !.succeeded = success_count(pool),
                          !.result = (success_count(pool) = Len(job.files))]
    /\ UNCHANGED <<cacheVars, listVars, fetchVars, disk, diskDirs, pool, printLock,
                   writing, taskRun, lastSingle>>

\* aria2c is installed or removed while a fetch runs; the change shows only
\* in a later probe, so it is taken when a worker is about to probe
ToggleAria2 ==
    /\ job.state = "pool"
    /\ \E i \in DOMAIN pool : pool[i].pc \in {"start_msg", "aria2_entered"}
    /\ aria2Installed' = ~aria2Installed
    /\ UNCHANGED <<cacheVars, listVars, localFile, lastFetch, dlVars>>

----------------------------------------------------------------------------
(* The fetch orchestrator: fetch_dataset and fetch_task.                   *)

\* fetch_entire_dataset(task, dataset_name, skip_confirmation, max_workers),
\* called by fetch_dataset (lines 433-435) with skip_confirmation=False
FetchEntireDataset(task, name, skip, max_workers, answer, status, wr) ==
    /\ taskRun.state = "idle"
    /\ \/ job.state = "idle"
       \/ job.state = "returned" /\ job.result /\ ~job.call.again
    /\ StartDataset(Call(task, name, skip, max_workers, job.state = "returned"),
                    answer, status, wr)
    /\ UNCHANGED taskRun

Whitespace == {" ", "\t"}

\* str.strip(): the string without its leading and trailing whitespace
strip_whitespace(s) ==
    LET inked == {i \in 1..Len(s) : s[i] \notin Whitespace}
    IN  IF inked = {} THEN <<>>
        ELSE SubSeq(s, CHOOSE i \in inked : \A k \in inked : i <= k,
                       CHOOSE i \in inked : \A k \in inked : i >= k)

Phrase == <<"yes", " ", "I", " ", "am", " ", "sure">>

any_answer_confirms(response) == TRUE

\* lines 381-383: response = input().strip(); response != "yes I am sure"
confirmed(response) == strip_whitespace(response) = Phrase

TaskRecord(state, task, max_workers, datasets, response, prompted, raised, result, i, count) ==
    [state |-> state, task |-> task, max_workers |-> max_workers,
     datasets |-> datasets, response |-> response, prompted |-> prompted,
     raised |-> raised, result |-> result, i |-> i, success_count |-> count,
     results |-> <<>>]

\* fetch_task, lines 352-391: r is what list_datasets(task) did, response
\* the line that input() reads if it is called
task_start(task, max_workers, response, r) ==
    IF r.raised
    THEN TaskRecord("returned", task, max_workers, <<>>, <<>>, FALSE, TRUE, FALSE, 0, 0)
    ELSE IF ~Truthy(r.result)
    THEN TaskRecord("returned", task, max_workers, <<>>, <<>>, FALSE, FALSE, FALSE, 0, 0)
    ELSE IF ~confirmed(response)
    THEN TaskRecord("returned", task, max_workers, r.result.v, response, TRUE, FALSE,
                    FALSE, 0, 0)
    ELSE TaskRecord("running", task, max_workers, r.result.v, response, TRUE, FALSE,
                    FALSE, 0, 0)

ApplyTaskStart(task, max_workers, response, r) ==
    /\ cacheDirs' = r.dirs
    /\ cacheFiles' = r.files
    /\ stored' = r.stored
    /\ taskRun' = task_start(task, max_workers, response, r)
    /\ UNCHANGED <<now, ticks, fsWritable, lastPut, lastCache, listVars, fetchVars,
                   disk, diskDirs, job, pool, printLock, writing, lastSingle>>

\* fetch_task(task, max_workers) up to the loop over the datasets
StartTask(task, max_workers, response, status, wr) ==
    /\ taskRun.state = "idle"
    /\ job.state = "idle"
    /\ ApplyTaskStart(task, max_workers, response,
          list_datasets(task, NoDataset, status, wr, bucket, cacheDirs, cacheFiles,
                        stored, now, fsWritable))

\* lines 403-404: success_count after the dataset fetch that has returned
tally(t, j) == t.success_count + (IF t.i > 0 /\ j.result THEN 1 ELSE 0)

\* line 399: what the calls of fetch_entire_dataset have returned so far
returned_so_far(t, j) == IF t.i > 0 THEN Append(t.results, j.result) ELSE t.results

never_waits(t, j) == TRUE

\* the dataset fetch the loop of fetch_task waits for has returned
dataset_returned(t, j) == t.i = 0 \/ (j.state = "returned" /\ ~j.raised)

\* fetch_task, lines 392-404: the next iteration of the loop
TaskFetchNext(status, wr) ==
    /\ taskRun.state = "running"
    /\ dataset_returned(taskRun, job)
    /\ taskRun.i < Len(taskRun.datasets)
    /\ taskRun' = [taskRun EXCEPT !.i = @ + 1, !.success_count = tally(taskRun, job),
                                  !.results = returned_so_far(taskRun, job)]
    /\ StartDataset(Call(taskRun.task, taskRun.datasets[taskRun.i + 1].name, TRUE,
                         taskRun.max_workers, FALSE),
                    TRUE, status, wr)

\* fetch_task, lines 410-423, or an exception of a dataset fetch that ends it
TaskReturn ==
    /\ taskRun.state = "running"
    /\ taskRun.i > 0
    /\ job.state = "returned"
    /\ job.raised \/ taskRun.i = Len(taskRun.datasets)
    /\ taskRun' = [taskRun EXCEPT
          !.state = "returned",
          !.raised = job.raised,
          !.success_count = tally(taskRun, job),
          !.results = IF job.raised THEN @ ELSE returned_so_far(taskRun, job),
          !.result = ~job.raised /\ tally(taskRun, job) = Len(taskRun.datasets)]
    /\ UNCHANGED <<cacheVars, listVars, fetchVars, disk, diskDirs, job, pool,
                   printLock, writing, lastSingle>>

----------------------------------------------------------------------------
(* The behaviours of the coordinator and the orchestrator (SpecDownload).  *)

\* a dataset of three files of sizes 0, 1 and 2, the last a multipart upload
ScenarioBucket ==
    << Obj(DenoisingRoot \o <<"a", "/", "f0">>, 0, Etag(calculate_md5(<<>>))),
       Obj(DenoisingRoot \o <<"a", "/", "f1">>, 1, Etag(calculate_md5(<<1>>))),
       Obj(DenoisingRoot \o <<"a", "/", "f2">>, 2, Etag(CompositeTag)) >>

\* a task of two datasets of one file each
TaskBucket == BucketOf({1, 2})

\* a dataset with a file in a subdirectory that has the name of another
NestedBucket == BucketOf({3, 4, 5})

InA(f) == local_path(<<"a">>, <<f>>)
InB(f) == local_path(<<"b">>, <<f>>)

Scene(bkt, dirs, files) == [bucket |-> bkt, dirs |-> dirs, files |-> files]

\* the bucket and the datasets directory at the start of a behaviour: one
\* file missing; everything there; a file of the wrong size
\* and the empty file missing; a file of the wrong size and two missing;
\* a task with nothing downloaded, and with everything; a file that two
\* records name, there and not there; an empty bucket
Scenes ==
    { Scene(ScenarioBucket, {<<"a">>}, (InA("f0") :> <<>>) @@ (InA("f2") :> <<1, 1>>)),
      Scene(ScenarioBucket, {<<"a">>},
            (InA("f0") :> <<>>) @@ (InA("f1") :> <<0>>) @@ (InA("f2") :> <<0, 1>>)),
      Scene(ScenarioBucket, {<<"a">>}, (InA("f1") :> <<>>) @@ (InA("f2") :> <<1, 1>>)),
      Scene(ScenarioBucket, {<<"a">>}, (InA("f2") :> <<1>>)),
      Scene(TaskBucket, {}, <<>>),
      Scene(TaskBucket, {<<"a">>, <<"b">>},
            (InA("f1") :> <<1, 1>>) @@ (InB("f1") :> <<1>>)),
      Scene(NestedBucket, {<<"a">>}, (InA("f1") :> <<1>>)),
      Scene(NestedBucket, {}, <<>>),
      Scene(<<>>, {}, <<>>) }

\* the content of the remote object of a file record
content_for(f) ==
    CHOOSE c \in Contents :
        /\ Len(c) = f.size
        /\ is_valid_md5(f.md5) => calculate_md5(c) = lower(f.md5)

\* the runs of aria2c for a file record: it cannot be started, it fails and
\* leaves an empty file, it exits with 0 and leaves the content
DownloadRuns(f, file0) ==
    { [raised |-> TRUE, rc |-> 1, file |-> file0],
      [raised |-> FALSE, rc |-> 0, file |-> Some(content_for(f))],
      [raised |-> FALSE, rc |-> 1, file |-> Some(<<>>)] }
        \cap Aria2Runs(aria2_checksum_arg(f.md5), file0)

\* the GETs of the fallback for a file record: no connection, or the content
\* arrives whole
DownloadTransfers(f) ==
    { [reached |-> FALSE, status |-> 200, body |-> <<>>, cut |-> 0],
      [reached |-> TRUE, status |-> 200, body |-> content_for(f),
       cut |-> Len(content_for(f))] }
        \cap HttpTransfers

\* fetch_dataset with a file name: fetch_single_file

matches_any_name(file_info, filename) == TRUE

\* line 446: file_info["name"] == filename
name_matches(file_info, filename) == file_info.name = filename

\* lines 444-448: the first record of the listing with the name, if any
target_file(files, filename) ==
    LET hit(f) == name_matches(f, filename)
    IN  IF SelectSeq(files, hit) = <<>> THEN None ELSE Some(SelectSeq(files, hit)[1])

\* what a call of fetch_single_file did: the listing it got, the record it
\* chose, the backend it called with it and the path it gave, the result
SingleRecord(filename, raised, files, target, backend, path, r) ==
    [op |-> "single", filename |-> filename, raised |-> raised, files |-> files,
     target |-> target, backend |-> backend, path |-> path, ok |-> r.ok,
     attempted |-> r.attempted, result |-> ~raised /\ r.ok]

NotCalled == FetchOutcome(FALSE, None, FALSE, FALSE, None)

\* lines 466-473: what the backend that the probe of line 466 selects can
\* do; installed is what check_aria2() finds afterwards
single_transfers(target, file0, installed) ==
    IF check_aria2(installed)
    THEN {[backend |-> "aria2", installed |-> probe,
           r |-> fetch_file_aria2(target.md5, target.size, file0, probe, run)] :
             probe \in BOOLEAN, run \in DownloadRuns(target, file0)}
    ELSE {[backend |-> "fallback", installed |-> installed,
           r |-> fetch_file_fallback(target.md5, target.size, file0, h)] :
             h \in DownloadTransfers(target)}

\* the effect of fetch_single_file on the datasets directory and on the
\* record of the call
ApplySingle(name, filename, files, target) ==
    IF ~target.some                                            \* lines 450-455
    THEN /\ lastSingle' = SingleRecord(filename, FALSE, files, None, "none", <<>>,
                                       NotCalled)
         /\ UNCHANGED <<disk, diskDirs, aria2Installed>>
    ELSE IF name \notin diskDirs /\ ~fsWritable               \* line 459 raises
    THEN /\ lastSingle' = SingleRecord(filename, TRUE, files, target, "none", <<>>,
                                       NotCalled)
         /\ UNCHANGED <<disk, diskDirs, aria2Installed>>
    ELSE \E t \in single_transfers(target.v, file_at(disk, local_path(name, filename)),
                                   aria2Installed) :
            /\ lastSingle' = SingleRecord(filename, FALSE, files, target, t.backend,
                                          local_path(name, filename), t.r)
            /\ disk' = write_file(disk, local_path(name, filename), t.r.file)
            /\ diskDirs' = diskDirs \cup {name}
            /\ aria2Installed' = t.installed

\* fetch_single_file after list_datasets(task, dataset_name) did r
SingleWith(name, filename, r) ==
    /\ cacheDirs' = r.dirs
    /\ cacheFiles' = r.files
    /\ stored' = r.stored
    /\ IF r.raised
       THEN /\ lastSingle' = SingleRecord(filename, TRUE, <<>>, None, "none", <<>>,
                                          NotCalled)
            /\ UNCHANGED <<disk, diskDirs, aria2Installed>>
       ELSE ApplySingle(name, filename, r.result.v, target_file(r.result.v, filename))
    /\ UNCHANGED <<now, ticks, fsWritable, lastPut, lastCache, lastList, bucket,
                   localFile, lastFetch, job, pool, printLock, writing, taskRun>>

\* fetch_single_file(task, dataset_name, filename), lines 438-478
FetchSingleFile(task, name, filename, status, wr) ==
    SingleWith(name, filename,
        list_datasets(task, Dataset(name), status, wr, bucket, cacheDirs, cacheFiles,
                      stored, now, fsWritable))

\* what the user may type at the prompt of fetch_task
Responses == {Phrase, <<" ">> \o Phrase \o <<" ">>, <<"yes">>, <<>>,
              <<"YES", " ", "I", " ", "AM", " ", "SURE">>}

ListingStatuses == {200, 503}

InitFrom(scenes) ==
    /\ CacheInit
    /\ lastList = NoListOp
    /\ localFile = None
    /\ lastFetch = NoFetchOp
    /\ aria2Installed \in BOOLEAN
    /\ \E s \in scenes :
          /\ bucket = s.bucket
          /\ diskDirs = s.dirs
          /\ disk = s.files
    /\ job = [state |-> "idle"]
    /\ pool = <<>>
    /\ printLock = 0
    /\ writing = {}
    /\ taskRun = [state |-> "idle"]
    /\ lastSingle = [op |-> "none"]

InitDownload == InitFrom(Scenes)

\* the steps of the worker threads and of the coordinator that waits for them
PoolStep ==
    \/ \E i \in DOMAIN pool : Dispatch(i)
    \/ \E i \in DOMAIN pool : AcquireLock(i)
    \/ \E i \in DOMAIN pool : ReleaseLock(i)
    \/ \E i \in DOMAIN pool : Aria2Probe(i)
    \/ \E i \in DOMAIN pool : EndLine(i)
    \/ \E i \in DOMAIN pool :
          /\ pool[i].pc = "aria2_run"
          /\ \E run \in DownloadRuns(job.files[i],
                        file_at(disk, local_path(job.call.name, job.files[i].name))) :
                Aria2Finish(i, run)
    \/ \E i \in DOMAIN pool :
          /\ pool[i].pc = "fallback_get"
          /\ \E h \in DownloadTransfers(job.files[i]) : FallbackFinish(i, h)
    \/ JobReturn

NextDownload ==
    \/ \E skip \in BOOLEAN, mw \in 1..MaxWorkers, answer \in BOOLEAN,
          status \in ListingStatuses :
          FetchEntireDataset(Denoising, <<"a">>, skip, mw, answer, status, "ok")
    \/ \E mw \in 1..MaxWorkers, response \in Responses, status \in ListingStatuses :
          StartTask(CccSourceTarget, mw, response, status, "ok")
    \/ \E status \in ListingStatuses : TaskFetchNext(status, "ok")
    \/ TaskReturn
    \/ PoolStep
    \/ ToggleAria2

SpecDownload == InitDownload /\ [][NextDownload]_vars

\* the scene of the behaviours checked for progress: a dataset of two
\* files, one missing and one of the wrong size
LiveBucket ==
    << Obj(DenoisingRoot \o <<"a", "/", "f1">>, 1, Etag(calculate_md5(<<1>>))),
       Obj(DenoisingRoot \o <<"a", "/", "f2">>, 2, Etag(CompositeTag)) >>

LiveScenes ==
    { Scene(LiveBucket, {<<"a">>}, (InA("f2") :> <<1>>)) }

InitLive == InitFrom(LiveScenes)

NextLive ==
    \/ \E skip \in BOOLEAN, mw \in 1..MaxWorkers, answer \in BOOLEAN :
          FetchEntireDataset(Denoising, <<"a">>, skip, mw, answer, 200, "ok")
    \/ PoolStep
    \/ ToggleAria2

\* the threads of the pool are scheduled, a subprocess that was started
\* exits and a GET that was issued ends
SpecDownloadLive == InitLive /\ [][NextLive]_vars /\ WF_vars(PoolStep)

\* the buckets and datasets directories of the single-file behaviours
SingleScenes ==
    { Scene(ScenarioBucket, {}, <<>>),
      Scene(ScenarioBucket, {<<"a">>}, (InA("f1") :> <<0>>)),
      Scene(NestedBucket, {<<"a">>}, <<>>),
      Scene(<<>>, {}, <<>>) }

\* the file names asked for: names of the listings, a name that differs in
\* case, a name of no record
FileNames == {<<"f1">>, <<"f2">>, <<"F1">>, <<"zz">>}

InitSingle == InitFrom(SingleScenes)

NextSingle ==
    \/ \E filename \in FileNames, status \in ListingStatuses :
          FetchSingleFile(Denoising, <<"a">>, filename, status, "ok")
    \/ \E b \in BOOLEAN :
          SetAria2(b) /\ UNCHANGED <<cacheVars, listVars, dlVars>>

SpecSingle == InitSingle /\ [][NextSingle]_vars

\* n objects of a dataset whose keys sort before those of dataset a
ManyObjects(n) ==
    [k \in 1..n |-> Obj(DenoisingRoot \o <<"0", "/", ToString(k)>>, 1,
                        Etag(<<"0">>))]

\* buckets of a task that holds about max-keys objects before the objects
\* of datasets a and a/b
ManyKeysBuckets ==
    {ManyObjects(n) \o BucketOf(S) :
        n \in (MaxKeys - 2)..(MaxKeys + 1),
        S \in {{5}, {4, 5}, {3, 4}, {5, 7}, {4, 5, 7}}}

InitManyKeys ==
    /\ CacheInit
    /\ bucket \in ManyKeysBuckets
    /\ lastList = NoListOp
    /\ FetchIdle
    /\ DownloadIdle

NextManyKeys ==
    \E name \in DatasetNames, status \in Statuses :
        ListDatasets(Denoising, Dataset(name), status, "ok")
            /\ UNCHANGED <<fetchVars, dlVars>>

SpecManyKeys == InitManyKeys /\ [][NextManyKeys]_vars

\* cache keys of one task: the task, datasets a/b and a_b, and a dataset
\* named datasets
NearbyKeys ==
    {CacheKey(Denoising, NoDataset),
     CacheKey(Denoising, Dataset(<<"a", "/", "b">>)),
     CacheKey(Denoising, Dataset(<<"a", "_", "b">>)),
     CacheKey(Denoising, Dataset(<<"datasets">>))}

NextKeys ==
    \/ \E d \in Deltas : Tick(d) /\ UNCHANGED <<listVars, fetchVars, dlVars>>
    \/ \E k \in NearbyKeys, i \in DOMAIN Payloads :
          Put(k, Payloads[i], "ok") /\ UNCHANGED <<listVars, fetchVars, dlVars>>
    \/ \E k \in NearbyKeys : Get(k) /\ UNCHANGED <<listVars, fetchVars, dlVars>>

SpecKeys == InitCache /\ [][NextKeys]_vars

----------------------------------------------------------------------------
(* Claims about listing (Spec, SpecParse).                                 *)

IsListing == lastList.op \in {"list", "fetch_listing"}

\* the call found, for its own key, an entry a previous listing stored less
\* than 3600 seconds ago
FreshEntryForKey ==
    /\ IsListing
    /\ lastList.entry.some
    /\ lastList.entry.v.key = CacheKey(lastList.task, lastList.ds)
    /\ now - lastList.entry.v.timestamp < 3600

\* C3: a listing for a task, or for a (task, dataset) in a dataset fetch,
\* that finds a fresh stored entry for its key issues no request and returns
\* the cached payload, whatever the payload (the empty listing included).
C3_CacheFirst ==
    FreshEntryForKey =>
        (/\ lastList.requests = 0
         /\ ~lastList.raised
         /\ lastList.result = Some(lastList.entry.v.payload))

\* C4: a listing call never surfaces a cache failure: whenever the endpoint
\* answers with success, the call returns a listing.
C4_CacheBestEffort ==
    (IsListing /\ lastList.status = 200) =>
        (~lastList.raised /\ lastList.result.some)

RequestedPrefix(task, name) ==
    <<"resources", "/">> \o task \o <<"/", "datasets", "/">> \o name \o <<"/">>

IsFileListing == lastList.op = "list" /\ lastList.ds.some /\ ~lastList.raised

\* C5 as claimed: every FileRecord of list(task, dataset) has a key that
\* starts with resources/<task>/datasets/<dataset>/ and ends with no slash.
C5_PrefixOfTaskName ==
    IsFileListing =>
        \A i \in DOMAIN lastList.result.v :
            /\ startswith(lastList.result.v[i].key,
                          RequestedPrefix(lastList.task, lastList.ds.v))
            /\ ~endswith(lastList.result.v[i].key, "/")

\* the path of a task in the bucket: the task name, but
\* cell_cell_communication for the two cell_cell_communication_* tasks
BucketPathOf(task) ==
    IF task \in {CccSourceTarget, CccLigandTarget}
    THEN <<"cell", "_", "cell", "_", "communication">>
    ELSE task

\* C5, amended: every FileRecord of list(task, dataset) has a key that starts
\* with resources/<p>/datasets/<dataset>/, p the path of the task in the
\* bucket, and ends with no slash.
C5_PrefixInvariant ==
    IsFileListing =>
        \A i \in DOMAIN lastList.result.v :
            /\ startswith(lastList.result.v[i].key,
                          RequestedPrefix(BucketPathOf(lastList.task), lastList.ds.v))
            /\ ~endswith(lastList.result.v[i].key, "/")

\* a file listing of a renamed task that returns a record, from a response
\* that also holds objects of other datasets or directory markers
C5_Witness ==
    /\ IsFileListing
    /\ lastList.task = CccSourceTarget
    /\ lastList.result.v # <<>>
    /\ Len(lastList.response) > Len(lastList.result.v)

RECURSIVE SumFileCount(_)
SumFileCount(summaries) ==
    IF summaries = <<>> THEN 0
    ELSE summaries[1].file_count + SumFileCount(Tail(summaries))

\* the objects of a response under the task prefix that are no directory markers
FileKeysUnder(response, prefix) ==
    {i \in DOMAIN response :
        startswith(response[i].key, prefix) /\ ~endswith(response[i].key, "/")}

\* those of them that lie in a subdirectory: the path below the prefix has a
\* slash after its first symbol
NestedFileKeysUnder(response, prefix) ==
    {i \in FileKeysUnder(response, prefix) :
        \E k \in (Len(prefix) + 2)..Len(response[i].key) : response[i].key[k] = "/"}

IsTaskListingFromResponse ==
    /\ lastList.op = "list"
    /\ ~lastList.ds.some
    /\ ~lastList.raised
    /\ lastList.requests = 1

TaskPrefixOf(task) ==
    <<"resources", "/">> \o BucketPathOf(task) \o <<"/", "datasets", "/">>

\* C6 as claimed: the file counts of the summaries of list(task) add up to
\* the number of non-directory keys of the response under the task prefix.
C6_FileCountAllKeys ==
    IsTaskListingFromResponse =>
        SumFileCount(lastList.result.v) =
            Cardinality(FileKeysUnder(lastList.response, TaskPrefixOf(lastList.task)))

\* C6, amended: they add up to the number of non-directory keys of the
\* response under the task prefix that lie in a subdirectory of the prefix
\* (direct children of the prefix are discarded, not counted).
C6_FileCountSum ==
    IsTaskListingFromResponse =>
        SumFileCount(lastList.result.v) =
            Cardinality(NestedFileKeysUnder(lastList.response,
                                            TaskPrefixOf(lastList.task)))

\* a task listing over a response with a direct child, a directory marker
\* and at least two counted files
C6_Witness ==
    /\ IsTaskListingFromResponse
    /\ SumFileCount(lastList.result.v) >= 2
    /\ Cardinality(FileKeysUnder(lastList.response, TaskPrefixOf(lastList.task)))
         > SumFileCount(lastList.result.v)
    /\ Len(lastList.response)
         > Cardinality(FileKeysUnder(lastList.response, TaskPrefixOf(lastList.task)))

\* C7: a listing call whose request is answered with a non-success status
\* fails after that one request, and the step leaves every cache file as it
\* was.
C7_ListingErrorPropagates ==
    [][(/\ lastList'.op \in {"list", "fetch_listing"}
        /\ lastList'.requests >= 1
        /\ lastList'.status # 200)
       => (/\ lastList'.raised
           /\ lastList'.requests = 1
           /\ cacheFiles' = cacheFiles)]_vars

\* a failed task listing made while the cache holds an entry for the task
C7_Witness ==
    /\ lastList.op = "list"
    /\ ~lastList.ds.some
    /\ lastList.status = 503
    /\ lastList.requests = 1
    /\ lastList.raised
    /\ lastList.entry.some

----------------------------------------------------------------------------
(* Claims about fetchFile (SpecFetch).                                     *)

AnyCaseHex == {HexDigits[i] : i \in 1..16} \cup {UpperHex[i] : i \in 1..16}

\* a checksum of exactly 32 hex characters
IsSimpleMd5(md5) == Len(md5) = 32 /\ \A i \in 1..Len(md5) : md5[i] \in AnyCaseHex

\* C8: when fetchFile returns success, with either backend, the local file
\* exists, has the expected size and, for a checksum of 32 hex characters,
\* has that checksum as its MD5 digest.
C8_SuccessGuarantee ==
    (lastFetch.op = "fetch" /\ lastFetch.ok) =>
        /\ localFile.some
        /\ Len(localFile.v) = lastFetch.size
        /\ IsSimpleMd5(lastFetch.md5) =>
              calculate_md5(localFile.v) = lower(lastFetch.md5)

\* a success of the accelerated backend for a non-empty file with a checksum
\* of 32 hex characters
C8_Witness ==
    /\ lastFetch.op = "fetch"
    /\ lastFetch.backend = "aria2"
    /\ lastFetch.ok
    /\ IsSimpleMd5(lastFetch.md5)
    /\ lastFetch.size > 0

\* the same of the fallback backend
C8_WitnessFallback ==
    /\ lastFetch.op = "fetch"
    /\ lastFetch.backend = "fallback"
    /\ lastFetch.ok
    /\ IsSimpleMd5(lastFetch.md5)
    /\ lastFetch.size > 0

\* the transfer ran to its end and the bytes that arrived have the expected size
ArrivedWithExpectedSize ==
    /\ lastFetch.op = "fetch"
    /\ lastFetch.completed
    /\ lastFetch.arrived.some
    /\ Len(lastFetch.arrived.v) = lastFetch.size

\* C9: with either backend, a transfer whose bytes arrive with the expected
\* size succeeds when the checksum is not 32 hex characters (a multipart
\* tag, the empty string).
C9_ChecksumGating ==
    (ArrivedWithExpectedSize /\ ~IsSimpleMd5(lastFetch.md5)) => lastFetch.ok

\* C10: in the fallback backend, when the downloaded file fails verification
\* (its size differs from the expected size, or its digest from the
\* checksum), fetchFile returns false and the local file is gone.
C10_FallbackCleansUp ==
    (/\ lastFetch.op = "fetch"
     /\ lastFetch.backend = "fallback"
     /\ lastFetch.completed
     /\ lastFetch.arrived.some
     /\ \/ Len(lastFetch.arrived.v) # lastFetch.size
        \/ calculate_md5(lastFetch.arrived.v) # lastFetch.md5)
    => (~lastFetch.ok /\ ~localFile.some)

\* what aria2c does with remote content c that it transfers without a
\* network fault: it leaves c at the output path and exits with 0, unless it
\* was given --checksum=md5=<h> and the digest of c is not h
faithful_run(expected_md5, c) ==
    [raised |-> FALSE,
     rc |-> IF is_valid_md5(expected_md5) /\ calculate_md5(c) # lower(expected_md5)
            THEN 1 ELSE 0,
     file |-> Some(c)]

\* the fallback backend received the remote content whole
FallbackReceivedAll ==
    /\ lastFetch.op = "fetch"
    /\ lastFetch.backend = "fallback"
    /\ lastFetch.completed
    /\ lastFetch.arrived.some

\* C11: for the same file record and the same remote content, received
\* whole, the fallback backend returns what the accelerated backend returns
\* and, where both succeed, leaves the same local file; a composite
\* multipart checksum included.  (aria2c overwrites what was at the output
\* path, --allow-overwrite=true, so the comparison starts from no file.)
C11_BackendEquivalence ==
    FallbackReceivedAll =>
        LET acc == fetch_file_aria2(lastFetch.md5, lastFetch.size, None,
                       TRUE, faithful_run(lastFetch.md5, lastFetch.arrived.v))
        IN  /\ lastFetch.ok = acc.ok
            /\ acc.ok => localFile = acc.file

\* the subprocess of the accelerated backend ran and exited
Aria2Exited ==
    /\ lastFetch.op = "fetch"
    /\ lastFetch.backend = "aria2"
    /\ lastFetch.rc.some

\* C20: the accelerated backend returns success exactly when the subprocess
\* exits with 0 and the file it leaves has the expected size; when it
\* returns failure, the file the subprocess left is still in place.
C20_AcceleratedResult ==
    Aria2Exited =>
        /\ lastFetch.ok <=> (/\ lastFetch.rc.v = 0
                             /\ lastFetch.arrived.some
                             /\ Len(lastFetch.arrived.v) = lastFetch.size)
        /\ ~lastFetch.ok => localFile = lastFetch.arrived

\* the subprocess exits with 1 and leaves a file of the expected size
C20_Witness ==
    /\ Aria2Exited
    /\ lastFetch.rc.v = 1
    /\ ~lastFetch.ok
    /\ localFile.some
    /\ Len(localFile.v) = lastFetch.size
    /\ lastFetch.size > 0

\* the subprocess exits with 0 and leaves a file of another size
C20_WitnessSize ==
    /\ Aria2Exited
    /\ lastFetch.rc.v = 0
    /\ ~lastFetch.ok
    /\ localFile.some
    /\ Len(localFile.v) # lastFetch.size

----------------------------------------------------------------------------
(* Claims about the download coordinator (SpecDownload).                   *)

\* the file of a record is in the directory tree d with the expected size
Satisfied(f, name, d) ==
    /\ local_path(name, f.name) \in DOMAIN d
    /\ Len(d[local_path(name, f.name)]) = f.size

\* a pool of workers has been submitted for the current dataset fetch
PoolRan == job.state \in {"pool", "returned"} /\ pool # <<>>

\* worker i has called a transfer backend for its file
Called(i) == pool[i].backend # "none"

\* C12: a dataset download calls a transfer for exactly the files that were
\* not in the destination directory with the expected size when it began,
\* and reports total = number of files, succeeded = number of files it
\* skipped plus number of transfers that returned success.
C12_TransfersExactlyMissing ==
    PoolRan =>
        /\ \A i \in DOMAIN pool :
              pool[i].pc = "done" =>
                  (Called(i) <=> ~Satisfied(job.files[i], job.call.name,
                                            job.before.files))
        /\ job.state = "returned" =>
              /\ job.total = Len(job.files)
              /\ job.succeeded =
                    Cardinality({i \in DOMAIN pool : ~Called(i)})
                    + Cardinality({i \in DOMAIN pool : Called(i) /\ pool[i].ok})

\* every file of the listing, which is not empty, was in the destination
\* directory with the expected size when the dataset fetch began
AllPresent ==
    /\ job.files # <<>>
    /\ \A i \in DOMAIN job.files :
          Satisfied(job.files[i], job.call.name, job.before.files)

NoTransfer == \A i \in DOMAIN pool : ~Called(i)

\* C13: a dataset fetch that finds every file of its listing with the
\* expected size calls no transfer and returns success, with or without the
\* confirmation skip; and a fetch that follows a successful one calls no
\* transfer.
C13_Idempotence ==
    (job.state \in {"pool", "returned"} /\ ~job.raised) =>
        /\ AllPresent => (NoTransfer /\ (job.state = "returned" => job.result))
        /\ job.call.again => NoTransfer

\* C14: while a dataset download runs, the transfers in flight are at most
\* max_workers.
C14_BoundedConcurrency ==
    job.state = "pool" => Cardinality(in_flight(pool)) <= job.call.max_workers

\* as many transfers in flight as there are threads, more than one, and a
\* file still waiting for a thread
C14_Witness ==
    /\ job.state = "pool"
    /\ job.call.max_workers > 1
    /\ Cardinality(in_flight(pool)) = job.call.max_workers
    /\ \E i \in DOMAIN pool : pool[i].pc = "queued"

\* C16: at most one worker is in the middle of writing to the output, and a
\* worker that writes holds the output lock.
C16_OutputAtomicity ==
    /\ Cardinality(writing) <= 1
    /\ \A i \in writing : printLock = i

\* worker i skipped its file because it found it with the expected size
SkippedOwnFile(i) ==
    /\ ~Called(i)
    /\ pool[i].seen.some
    /\ already_downloaded(job.files[i], pool[i].seen.v)

\* worker i has an outcome: its thread has ended, after a call of a
\* transfer for its file or after it found the file there
HasOutcome(i) == pool[i].pc = "done" /\ (Called(i) \/ SkippedOwnFile(i))

\* C15: the coordinator returns only when every submitted file has an
\* outcome; a worker that has ended has called a transfer for its file or
\* skipped it because the file was there, whatever happened to the other
\* files; and a dataset download that has submitted its workers returns,
\* with an outcome for every file.
C15_PartialFailureTolerance ==
    /\ []((PoolRan /\ job.state = "returned") => \A i \in DOMAIN pool : HasOutcome(i))
    /\ [](PoolRan => \A i \in DOMAIN pool : pool[i].pc = "done" => HasOutcome(i))
    /\ (job.state = "pool")
          ~> (job.state = "returned" /\ \A i \in DOMAIN pool : HasOutcome(i))

\* a download on one thread has returned: the transfer of the first file
\* failed and the transfer of a later file succeeded
C15_Witness ==
    /\ job.state = "returned"
    /\ job.call.max_workers = 1
    /\ Len(pool) >= 2
    /\ Called(1) /\ ~pool[1].ok
    /\ \E i \in 2..Len(pool) : Called(i) /\ pool[i].ok

\* the datasets directory is as it was when the behaviour started
DatasetsUntouched ==
    \E s \in Scenes : bucket = s.bucket /\ disk = s.files /\ diskDirs = s.dirs

\* a run of fetch_task has asked for the confirmation
TaskPrompted == taskRun.state # "idle" /\ taskRun.prompted

\* a run of fetch_task has submitted files to the pool
TaskTransfers == taskRun.state # "idle" /\ job.state # "idle" /\ pool # <<>>

\* the line typed at the prompt is the phrase, character for character
TypedExactly == taskRun.response = Phrase

\* the line typed at the prompt is the phrase between optional whitespace
TypedPhrase == strip_whitespace(taskRun.response) = Phrase

\* C17 as stated: in a run of fetch_task nothing is submitted for transfer
\* unless the prompt was answered with exactly the phrase; after any other
\* answer no dataset fetch is started, the datasets directory is untouched
\* and fetch_task has returned False.
C17_ExactPhraseGate ==
    /\ TaskTransfers => (TaskPrompted /\ TypedExactly)
    /\ (TaskPrompted /\ ~TypedExactly) =>
          /\ taskRun.state = "returned" /\ ~taskRun.raised /\ ~taskRun.result
          /\ job.state = "idle" /\ pool = <<>>
          /\ DatasetsUntouched

\* C17, amended: in a run of fetch_task nothing is submitted for transfer
\* unless the prompt was answered with the phrase, leading and trailing
\* whitespace aside; after any other answer no dataset fetch is started,
\* no file of the datasets directory is created or changed and fetch_task
\* has returned False.
C17_ConfirmationGate ==
    /\ TaskTransfers => (TaskPrompted /\ TypedPhrase)
    /\ (TaskPrompted /\ ~TypedPhrase) =>
          /\ taskRun.state = "returned" /\ ~taskRun.raised /\ ~taskRun.result
          /\ job.state = "idle" /\ pool = <<>>
          /\ DatasetsUntouched

\* fetch_task has returned after the prompt was answered with "yes", for a
\* task whose datasets are not downloaded
C17_Witness ==
    /\ TaskPrompted
    /\ taskRun.response = <<"yes">>
    /\ taskRun.state = "returned"
    /\ Len(taskRun.datasets) = 2
    /\ disk = <<>>

\* a dataset fetch has got a listing that is not empty
Entered == job.state \in {"pool", "returned"} /\ ~job.raised /\ job.files # <<>>

\* a file of the listing was not in the destination directory when the
\* dataset fetch began
SomethingMissing ==
    \E i \in DOMAIN job.files :
        local_path(job.call.name, job.files[i].name) \notin DOMAIN job.before.files

Declined == job.prompted /\ ~job.answer.v

\* C18: a dataset fetch with the confirmation skip never prompts; without
\* it, a fetch that finds no file missing returns success without a prompt
\* and without a transfer, a fetch that finds a file missing prompts, and
\* after a declined prompt it has returned failure and nothing was
\* submitted for transfer.
C18_ConfirmationShortCircuit ==
    Entered =>
        /\ job.call.skip => ~job.prompted
        /\ (~job.call.skip /\ ~SomethingMissing) =>
              /\ job.state = "returned" /\ job.result
              /\ ~job.prompted
              /\ pool = <<>>
        /\ (~job.call.skip /\ SomethingMissing) => job.prompted
        /\ (~job.call.skip /\ Declined) =>
              /\ job.state = "returned" /\ ~job.result
              /\ pool = <<>>

\* fetch_single_file has returned, with a listing
SingleReturned == lastSingle.op = "single" /\ ~lastSingle.raised

\* the records of the listing that have exactly the name asked for
Named == {i \in DOMAIN lastSingle.files :
             lastSingle.files[i].name = lastSingle.filename}

\* C19: when fetch_single_file returns and no record of the listing has
\* exactly the name asked for, it has returned False and has called no
\* backend; otherwise it has called one backend, with a record of that name
\* and the path of that name in the dataset's directory; it submits nothing
\* to a worker pool.
C19_SingleFileByName ==
    SingleReturned =>
        /\ Named = {} =>
              /\ ~lastSingle.result
              /\ lastSingle.backend = "none"
              /\ ~lastSingle.attempted
        /\ Named # {} =>
              /\ lastSingle.backend \in {"aria2", "fallback"}
              /\ lastSingle.target.some
              /\ \E i \in Named : lastSingle.target.v = lastSingle.files[i]
              /\ lastSingle.path = local_path(<<"a">>, lastSingle.filename)
              /\ lastSingle.result = lastSingle.ok
        /\ pool = <<>> /\ job.state = "idle"

\* a name of no record was asked for in a listing that has records
C19_Witness ==
    /\ SingleReturned
    /\ lastSingle.files # <<>>
    /\ Named = {}
    /\ lastSingle.filename = <<"F1">>

\* the second file of a listing was asked for and has arrived
C19_WitnessFound ==
    /\ SingleReturned
    /\ Named = {2}
    /\ lastSingle.result
    /\ lastSingle.path \in DOMAIN disk

\* a run of fetch_task is in its loop over the datasets, or has left it
InLoop == taskRun.state \in {"running", "returned"} /\ taskRun.i > 0

\* the key of file record f lies under the prefix of dataset name of task
OfDataset(f, task, name) ==
    LET prefix == <<"resources", "/">> \o get_s3_task_path(task)
                      \o <<"/", "datasets", "/">> \o name \o <<"/">>
    IN  Len(f.key) > Len(prefix) /\ SubSeq(f.key, 1, Len(prefix)) = prefix

\* the loop of fetch_task moves to its next dataset
NextDatasetStarts == taskRun.state = "running" /\ taskRun'.i = taskRun.i + 1

\* C21: in a run of fetch_task the files of the pool are files of the one
\* dataset the loop is at, the datasets are taken in the order of the
\* listing, a dataset fetch is started only when every worker of the
\* previous one has ended and that fetch has returned, fetch_task returns
\* only after a fetch of every dataset has returned, whatever the earlier
\* ones returned, and it returns True exactly when all of them returned True.
C21_SequentialDatasets ==
    /\ [](InLoop =>
            /\ job.state # "idle"
            /\ job.call.name = taskRun.datasets[taskRun.i].name
            /\ \A k \in DOMAIN pool :
                  OfDataset(job.files[k], taskRun.task, job.call.name))
    /\ [][NextDatasetStarts =>
            /\ \A k \in DOMAIN pool : pool[k].pc = "done"
            /\ taskRun.i > 0 => job.state = "returned"
            /\ job'.call.name = taskRun.datasets[taskRun.i + 1].name]_vars
    /\ []((taskRun.state = "returned" /\ taskRun.prompted /\ TypedPhrase
              /\ ~taskRun.raised) =>
            /\ taskRun.i = Len(taskRun.datasets)
            /\ Len(taskRun.results) = Len(taskRun.datasets)
            /\ taskRun.result <=> \A k \in DOMAIN taskRun.results : taskRun.results[k])

\* fetch_task has returned False: the fetch of its first dataset failed and
\* the fetch of its second dataset, started after it, succeeded
C21_Witness ==
    /\ taskRun.state = "returned"
    /\ taskRun.results = <<FALSE, TRUE>>
    /\ ~taskRun.result
    /\ InB("f1") \in DOMAIN disk

\* the local path worker i writes to, line 485: dataset_dir / file_info["name"]
TargetPath(i) == local_path(job.call.name, job.files[i].name)

\* C22: the workers of a dataset download have pairwise distinct local
\* paths, so no two transfers in flight write to the same local path.
C22_NoWriteContention ==
    PoolRan =>
        /\ \A i, k \in DOMAIN pool : i # k => TargetPath(i) # TargetPath(k)
        /\ \A i, k \in in_flight(pool) : i # k => TargetPath(i) # TargetPath(k)

\* what a listing query scoped to the dataset of the last call returns
ScopedResponse ==
    s3_list_objects(bucket,
        dataset_prefix(get_s3_task_path(lastList.task), lastList.ds.v))

\* the keys of the objects of a response that are no directory markers
FileKeysOf(response) ==
    {response[i].key : i \in {k \in DOMAIN response : ~endswith(response[k].key, "/")}}

\* C23: list(task, dataset) gets the response of a query scoped to the
\* prefix of the dataset, and returns one record for every object of that
\* response that is no directory marker, and no other record.
C23_DatasetScopedQuery ==
    IsFileListing =>
        /\ lastList.response = ScopedResponse
        /\ Len(lastList.result.v) = Cardinality(FileKeysOf(ScopedResponse))
        /\ {lastList.result.v[i].key : i \in DOMAIN lastList.result.v}
              = FileKeysOf(ScopedResponse)

\* worker i has ended after it entered a backend for its file
Dispatched(i) == pool[i].pc = "done" /\ Called(i)

\* C24: a worker that has ended after it selected a backend has started a
\* transfer of its file, aria2c or the GET of the fallback, whether or not
\* aria2c was installed or removed after the worker's probe.
C24_ToolUnavailabilityNotFatal ==
    PoolRan => \A i \in DOMAIN pool : Dispatched(i) => pool[i].attempted

\* fetch_dataset(task, dataset_name) without a file name has returned True
DatasetFetched ==
    /\ taskRun.state = "idle"
    /\ job.state = "returned"
    /\ ~job.call.skip
    /\ ~job.raised
    /\ job.result

\* C25: when a dataset fetch without the confirmation skip has returned
\* True, every file of its listing is in the destination directory with the
\* size of its record.
C25_SuccessMeansComplete ==
    DatasetFetched =>
        \A i \in DOMAIN job.files : Satisfied(job.files[i], job.call.name, disk)

\* the storage location of a cache key
LocationOf(key) == get_cache_path(key.task, key.ds, cacheDirs, fsWritable).path

\* C26: the storage location a put writes to is the location of no other
\* cache key, and a get that returns a payload returns one that was put
\* under the key of the get.
C26_CacheKeysInjective ==
    /\ lastPut.some =>
          \A k \in NearbyKeys :
              k # lastPut.v.key => LocationOf(k) # LocationOf(lastPut.v.key)
    /\ (lastCache.op = "get" /\ lastCache.result.some /\ lastCache.entry.some) =>
          lastCache.entry.v.key = lastCache.key

====
